---- MODULE Spec2Model ----
(***************************************************************************)
(* The RD Station deal exporter: three variants of one program, each a     *)
(* driver loop (main) over days and pages that calls                       *)
(* RDStationClient.fetch_deals and DataExporter.save_deals.                *)
(*   variant "A": src/exporta_oportunidades_rdstation.py                   *)
(*   variant "B": src/unnamed/part_000, lines 1-140                        *)
(*   variant "C": src/unnamed/part_000, lines 143-282                      *)
(* Dates are day numbers; a Page is the decoded JSON body of one response. *)
(***************************************************************************)
EXTENDS Integers, Sequences, FiniteSets, TLC

\* ---------------------------------------------------------------- bounds
\* Last day of the collection interval (end_date = now, as a day number).
MaxDay == 2
\* The mock API holds at most MaxPage pages of data for one day.
MaxPage == 2

\* ------------------------------------------------------ program constants
per_page == 200
retry_attempts == 3
retry_delay == 5
start_date == 1
end_date == MaxDay

Variants == {"A", "B", "C"}

\* ------------------------------------------------------------ JSON values
\* Record counts the mock API answers with: empty, short, full.
NSet == {0, 1, per_page}

List(n) == [kind |-> "list", n |-> n, has_more |-> FALSE]
\* n = -1: the object has no "deals" key.
Obj(n, hm) == [kind |-> "obj", n |-> n, has_more |-> hm]
EmptyObj == [kind |-> "emptyobj", n |-> -1, has_more |-> FALSE]
\* JSON null / 0 / "" / false (n = 0) or a non-zero number, non-empty string, true (n = 1).
Scalar(t) == [kind |-> "scalar", n |-> t, has_more |-> FALSE]
None == [kind |-> "None", n |-> 0, has_more |-> FALSE]

\* The JSON values the mock API answers with: bare lists (empty, short),
\* objects with and without "deals" and has_more, the empty object, scalars.
Pages ==
    {List(n) : n \in NSet \ {per_page}}
    \cup {Obj(n, FALSE) : n \in NSet \cup {-1}}
    \cup {Obj(n, TRUE) : n \in NSet \ {0}}
    \cup {EmptyObj, Scalar(0), Scalar(1)}

\* What the API can answer for page p of a day: its data is finite, so the
\* last page it holds is neither full nor flagged has_more.
ServerPages(p) ==
    IF p < MaxPage THEN Pages
    ELSE {pg \in Pages : pg.n < per_page /\ ~pg.has_more}

\* Python truth value of a fetch result (`if not data`).
Truthy(d) ==
    CASE d.kind = "None" -> FALSE
      [] d.kind = "list" -> d.n > 0
      [] d.kind = "obj" -> TRUE
      [] d.kind = "emptyobj" -> FALSE
      [] d.kind = "scalar" -> d.n = 1

\* The value has a .get method (it is a dict).
IsDict(d) == d.kind \in {"obj", "emptyobj"}

\* len(data.get("deals", []))
DealsLen(d) == IF d.kind = "obj" /\ d.n >= 0 THEN d.n ELSE 0

\* data.get("has_more", False)
HasMore(d) == d.kind = "obj" /\ d.has_more

\* ------------------------------------------------------------- fetch_deals
\* `if attempt < self.config.retry_attempts - 1`: sleep and try again.
ShouldSleep_afterLast(a) == a < retry_attempts

ShouldSleep(a) == a < retry_attempts - 1

\* `for attempt in range(self.config.retry_attempts)`: the next value.
NextAttempt_same(a) == a

NextAttempt(a) == a + 1

\* requests.get(..., timeout=30) only in variant B.
HasTimeout(v) == v = "B"

\* Variant B counts the records before returning:
\* len(data) if isinstance(data, list) else len(data.get('deals', [])),
\* which raises AttributeError on a value that is neither list nor dict.
CountRaises(v, d) == v = "B" /\ d.kind = "scalar"

\* -------------------------------------------------------------- save_deals
\* json.dump(data, f, ensure_ascii=False, indent=4): the text written.
JsonDump_dealsOnly(d) ==
    [value |-> List(DealsLen(d)), indent |-> 4, ensure_ascii |-> FALSE]

JsonDump(d) == [value |-> d, indent |-> 4, ensure_ascii |-> FALSE]

NoFile == [value |-> None, indent |-> 0, ensure_ascii |-> FALSE]
\* A file an earlier run of the program left in the output directory.
OldFile == [value |-> Obj(1, FALSE), indent |-> 2, ensure_ascii |-> FALSE]
\* What a write that failed half way (disk full) leaves behind.
PartialFile == [value |-> None, indent |-> 4, ensure_ascii |-> FALSE]

\* f"oportunidades_{date.strftime('%Y-%m-%d')}_p{page}.json" in output_dir.
FilePath(d, p) == <<d, p>>

Keys == (start_date .. end_date) \X (1 .. MaxPage)

\* open(filename, 'w') and json.dump: the directory after save_deals wrote
\* data at path k, whatever was there before.
SaveDealsWrite_keepExisting(fs, d, k) ==
    IF fs[k] # NoFile THEN fs ELSE [fs EXCEPT ![k] = JsonDump(d)]

SaveDealsWrite(fs, d, k) == [fs EXCEPT ![k] = JsonDump(d)]

\* -------------------------------------------------------- main, loop body
\* What one pass of the inner `while True` body does with the fetch result:
\* write: save_deals writes the file; raises: an exception leaves main,
\* raised in `site`; cont: page += 1 and fetch again (else break).
Outcome(w, r, s, c) == [write |-> w, raises |-> r, site |-> s, cont |-> c]

\* `len(...) < config.per_page`: last page reached.
ShortPage_never(n) == FALSE

ShortPage(n) == n < per_page

BodyA(d) ==
    IF ~Truthy(d) THEN Outcome(FALSE, FALSE, "none", FALSE)
    ELSE IF ~IsDict(d) THEN Outcome(FALSE, TRUE, "save_deals", FALSE)
    ELSE IF DealsLen(d) = 0 THEN Outcome(FALSE, FALSE, "none", FALSE)
    ELSE Outcome(TRUE, FALSE, "none", ~ShortPage(DealsLen(d)))

BodyB(d) ==
    IF ~Truthy(d) THEN Outcome(FALSE, FALSE, "none", FALSE)
    ELSE IF d.kind = "scalar" THEN Outcome(TRUE, TRUE, "main", FALSE)
    ELSE LET registros == IF d.kind = "list" THEN d.n ELSE DealsLen(d)
         IN  Outcome(TRUE, FALSE, "none", ~(registros = 0 \/ ShortPage(registros)))

BodyC(d) ==
    IF ~Truthy(d) THEN Outcome(FALSE, FALSE, "none", FALSE)
    ELSE IF ~IsDict(d) THEN Outcome(TRUE, TRUE, "main", FALSE)
    ELSE Outcome(TRUE, FALSE, "none", HasMore(d))

LoopBody(v, d) ==
    CASE v = "A" -> BodyA(d)
      [] v = "B" -> BodyB(d)
      [] v = "C" -> BodyC(d)

\* current_date += timedelta(days=1)
NextDate_skip(d) == d + 2

NextDate(d) == d + 1

\* The days of the collection interval.
Days == start_date .. end_date

\* The exit status of the process: its last statement is the `except
\* Exception` handler, which logs and lets the script end (status 0), as a
\* main() that returned does.
NotExited == -1
ExitAfterHandler == 0
ExitAfterMain == 0

\* page += 1
NextPage_skip(p) == p + 2

NextPage_same(p) == p

NextPage(p) == p + 1

\* ------------------------------------------------------------------ state
VARIABLES
    variant,        \* which of the three programs runs
    current_date,   \* main: current_date
    page,           \* main: page
    data,           \* main: data, the last value fetch_deals returned
    pc,             \* where the program is
    attempt,        \* fetch_deals: attempt
    files,          \* the output directory: path -> content
    error,          \* the exception that left main ("none" if none)
    crashSite,      \* the function that raised it
    call,           \* the fetch_deals call in progress, or returned and not
                    \* yet used by main
    requests,       \* HTTP requests made by that call
    sleeps,         \* sleep(retry_delay) calls made by that call
    slept,          \* seconds that call has slept
    transportFailures, \* its attempts that failed by transport error or non-2xx
    writes,         \* path -> number of times save_deals opened it for writing
    exitCode,       \* the exit status of the process, NotExited while it runs
    dayFetches,     \* date -> number of fetch_deals(date, 1) calls of the run
    lastFetch       \* <<date, page>> of the latest fetch_deals call, <<0, 0>> if none

vars == <<variant, current_date, page, data, pc, attempt, files, error,
          crashSite, call, requests, sleeps, slept, transportFailures, writes,
          exitCode, dayFetches, lastFetch>>

NoCall == [date |-> 0, page |-> 0, result |-> "none"]

\* The output directory as the program finds it: the run of the day before
\* left one file for every day it covered (mkdir(exist_ok=True) keeps them).
InitialDir == [k \in Keys |-> IF k[1] < end_date /\ k[2] = 1 THEN OldFile ELSE NoFile]

Init ==
    /\ variant \in Variants
    /\ current_date = start_date
    /\ page = 1
    /\ data = None
    /\ pc = "NextDay"
    /\ attempt = 0
    /\ files = InitialDir
    /\ error = "none"
    /\ crashSite = "none"
    /\ call = NoCall
    /\ requests = 0
    /\ sleeps = 0
    /\ slept = 0
    /\ transportFailures = 0
    /\ writes = [k \in Keys |-> 0]
    /\ exitCode = NotExited
    /\ dayFetches = [d \in Days |-> 0]
    /\ lastFetch = <<0, 0>>

\* client.fetch_deals(d, p) is entered.
CallFetch(d, p) ==
    /\ pc' = "Attempt"
    /\ attempt' = 0
    /\ call' = [date |-> d, page |-> p, result |-> "pending"]
    /\ lastFetch' = <<d, p>>
    /\ dayFetches' = IF p = 1 /\ d \in Days
                     THEN [dayFetches EXCEPT ![d] = @ + 1]
                     ELSE dayFetches
    /\ requests' = 0
    /\ sleeps' = 0
    /\ slept' = 0
    /\ transportFailures' = 0

\* main has taken the result of the call: the record of the call is closed.
CallConsumed ==
    /\ call' = NoCall
    /\ requests' = 0
    /\ sleeps' = 0
    /\ slept' = 0
    /\ transportFailures' = 0

\* An exception leaves main: the handler of __main__ logs it and the script
\* ends.
Raise_swallowed(e, site) ==
    /\ pc' = "NextDay"
    /\ error' = e
    /\ crashSite' = site
    /\ exitCode' = exitCode

Raise(e, site) ==
    /\ pc' = "Crashed"
    /\ error' = e
    /\ crashSite' = site
    /\ exitCode' = ExitAfterHandler

\* `while current_date <= end_date:` then `page = 1` and the first fetch.
NextDay ==
    /\ pc = "NextDay"
    /\ IF current_date <= end_date
       THEN /\ page' = 1
            /\ CallFetch(current_date, 1)
            /\ UNCHANGED exitCode
       ELSE /\ pc' = "Done"
            /\ exitCode' = ExitAfterMain
            /\ UNCHANGED <<page, attempt, call, requests, sleeps, slept,
                           transportFailures, dayFetches, lastFetch>>
    /\ UNCHANGED <<variant, current_date, data, files, error, crashSite, writes>>

\* The except branch of one failed attempt.
AfterFailure ==
    IF ShouldSleep(attempt)
    THEN /\ pc' = "Sleep"
         /\ UNCHANGED <<data, call>>
    ELSE /\ pc' = "Returned"
         /\ data' = None
         /\ call' = [call EXCEPT !.result = "failure"]

\* An attempt answered 2xx with the JSON value pg.
AttemptSucceeds ==
    /\ pc = "Attempt"
    /\ \E pg \in ServerPages(page) :
        /\ requests' = requests + 1
        /\ IF CountRaises(variant, pg)
           THEN /\ Raise("AttributeError", "fetch_deals")
                /\ call' = [call EXCEPT !.result = "raised"]
                /\ UNCHANGED data
           ELSE /\ pc' = "Returned"
                /\ data' = pg
                /\ call' = [call EXCEPT !.result = "page"]
                /\ UNCHANGED <<error, crashSite, exitCode>>
    /\ UNCHANGED <<variant, current_date, page, attempt, files, sleeps, slept,
                   transportFailures, writes, dayFetches, lastFetch>>

\* An attempt failed with a transport error or a non-2xx status.
AttemptFails ==
    /\ pc = "Attempt"
    /\ requests' = requests + 1
    /\ transportFailures' = transportFailures + 1
    /\ AfterFailure
    /\ UNCHANGED <<variant, current_date, page, attempt, files, error,
                   crashSite, sleeps, slept, writes, exitCode, dayFetches,
                   lastFetch>>

\* The server never answers: with a timeout the attempt fails (Timeout is a
\* RequestException), without one requests.get never returns.
AttemptUnanswered ==
    /\ pc = "Attempt"
    /\ requests' = requests + 1
    /\ IF HasTimeout(variant)
       THEN /\ transportFailures' = transportFailures + 1
            /\ AfterFailure
       ELSE /\ pc' = "Blocked"
            /\ UNCHANGED <<transportFailures, data, call>>
    /\ UNCHANGED <<variant, current_date, page, attempt, files, error,
                   crashSite, sleeps, slept, writes, exitCode, dayFetches,
                   lastFetch>>

\* An attempt answered 2xx with a body that is not JSON: response.json()
\* raises. The installed requests decides whether that exception is a
\* RequestException (caught, a failed attempt) or a plain ValueError.
AttemptBadJson ==
    /\ pc = "Attempt"
    /\ requests' = requests + 1
    /\ \E caught \in BOOLEAN :
        IF caught
        THEN /\ AfterFailure
             /\ UNCHANGED <<error, crashSite, exitCode>>
        ELSE /\ Raise("ValueError", "fetch_deals")
             /\ call' = [call EXCEPT !.result = "raised"]
             /\ UNCHANGED data
    /\ UNCHANGED <<variant, current_date, page, attempt, files, sleeps, slept,
                   transportFailures, writes, dayFetches, lastFetch>>

\* sleep(self.config.retry_delay), then the next iteration of the for loop;
\* a for loop that has run out falls off the function, which returns None.
Sleep ==
    /\ pc = "Sleep"
    /\ sleeps' = sleeps + 1
    /\ slept' = slept + retry_delay
    /\ attempt' = NextAttempt(attempt)
    /\ IF attempt' < retry_attempts
       THEN /\ pc' = "Attempt"
            /\ UNCHANGED <<data, call>>
       ELSE /\ pc' = "Returned"
            /\ data' = None
            /\ call' = [call EXCEPT !.result = "failure"]
    /\ UNCHANGED <<variant, current_date, page, files, error, crashSite,
                   requests, transportFailures, writes, exitCode, dayFetches,
                   lastFetch>>

\* The body of the inner loop after fetch_deals returned, the write succeeding:
\* `if not data: break`, save_deals, the stop check, `page += 1`, and after a
\* break `current_date += timedelta(days=1)`.
ProcessPage ==
    /\ pc = "Returned"
    /\ LET b == LoopBody(variant, data)
           k == FilePath(current_date, page)
       IN  /\ IF b.write
              THEN /\ files' = SaveDealsWrite(files, data, k)
                   /\ writes' = [writes EXCEPT ![k] = @ + 1]
              ELSE UNCHANGED <<files, writes>>
           /\ IF b.raises
              THEN /\ Raise("AttributeError", b.site)
                   /\ CallConsumed
                   /\ UNCHANGED <<current_date, page, attempt, dayFetches,
                                  lastFetch>>
              ELSE IF b.cont
              THEN /\ page' = NextPage(page)
                   /\ CallFetch(current_date, page')
                   /\ UNCHANGED <<current_date, error, crashSite, exitCode>>
              ELSE /\ current_date' = NextDate(current_date)
                   /\ pc' = "NextDay"
                   /\ CallConsumed
                   /\ UNCHANGED <<page, attempt, error, crashSite, exitCode,
                                  dayFetches, lastFetch>>
    /\ UNCHANGED <<variant, data>>

\* The same body when open() or json.dump raises OSError in save_deals: the
\* file is untouched (open failed) or truncated and incomplete (write failed).
ProcessPageWriteFails ==
    /\ pc = "Returned"
    /\ LoopBody(variant, data).write
    /\ LET k == FilePath(current_date, page)
       IN  /\ writes' = [writes EXCEPT ![k] = @ + 1]
           /\ \E opened \in BOOLEAN :
                files' = IF opened THEN [files EXCEPT ![k] = PartialFile] ELSE files
    /\ Raise("OSError", "save_deals")
    /\ CallConsumed
    /\ UNCHANGED <<variant, current_date, page, data, attempt, dayFetches,
                   lastFetch>>

Next ==
    \/ NextDay
    \/ AttemptSucceeds
    \/ AttemptFails
    \/ AttemptUnanswered
    \/ AttemptBadJson
    \/ Sleep
    \/ ProcessPage
    \/ ProcessPageWriteFails

Spec == Init /\ [][Next]_vars

\* The program is one sequential thread: it takes its next step when it has one.
FairSpec == Spec /\ WF_vars(Next)

\* ------------------------------------------------------------ vocabulary
\* The path of the fetch_deals call in progress or just returned.
CallKey == FilePath(call.date, call.page)

\* The fetch result is a Page holding records: a bare list or an object.
IsRecordPage(d) == d.kind \in {"list", "obj", "emptyobj"}

\* The number of records of such a Page (the extracted list's length).
NRecords(d) == IF d.kind = "list" THEN d.n ELSE DealsLen(d)

\* fetch_deals has just returned a Page to main.
ReturnedPage == pc = "Returned" /\ call.result = "page"

\* Every HTTP attempt of the call so far failed by transport error or non-2xx.
AllAttemptsFailed == requests > 0 /\ transportFailures = requests

\* The driver ends the day: no more fetch for current_date, on to the next.
EndsDay == pc' = "NextDay" /\ current_date' = current_date + 1

\* The driver's first fetch of a day is page 1 of that day.
DayStartsAtPageOne ==
    (pc = "NextDay" /\ current_date <= end_date) =>
        (pc' = "Attempt" /\ call'.date = current_date /\ call'.page = 1)

\* ------------------------------------------------------------------ claims

\* C1: in variants A and B, when fetch(date, p) returns a Page of N records
\* with 0 < N < per_page (and the filesystem accepts the write), the driver
\* writes exactly one file for (date, p), fetches no page p+1 of that date,
\* and its next fetch is page 1 of the following date.
C1_ShortPageStops ==
    [][ /\ ( /\ variant \in {"A", "B"}
             /\ ReturnedPage
             /\ IsRecordPage(data)
             /\ 0 < NRecords(data) /\ NRecords(data) < per_page
             /\ error' # "OSError" )
           => ( /\ writes'[CallKey] = 1
                /\ files'[CallKey].value = data
                /\ EndsDay )
        /\ DayStartsAtPageOne ]_vars

\* C2: in every variant, when fetch(date, p) returns a Page of exactly
\* per_page records (and the filesystem accepts the write), the driver's
\* next fetch is (date, p+1).
C2_FullPageContinues ==
    [][ ( /\ ReturnedPage
          /\ IsRecordPage(data)
          /\ NRecords(data) = per_page
          /\ error' # "OSError" )
        => ( /\ pc' = "Attempt"
             /\ call'.date = current_date
             /\ call'.page = page + 1 ) ]_vars

\* C3: in variants A and B, when fetch(date, p) returns a Page whose
\* extracted record list is empty, no file is written for (date, p), nothing
\* is raised, and the driver ends the day.
C3_EmptyPageSkipped ==
    [][ ( /\ variant \in {"A", "B"}
          /\ ReturnedPage
          /\ IsRecordPage(data)
          /\ NRecords(data) = 0 )
        => ( /\ files' = files
             /\ writes' = writes
             /\ error' = "none"
             /\ EndsDay ) ]_vars

\* C4: a fetch_deals call whose every attempt fails by transport error or
\* non-2xx makes exactly retry_attempts requests and retry_attempts - 1
\* sleeps, one after each failed attempt but the last, and returns None.
C4_RetryBound ==
    AllAttemptsFailed =>
        /\ requests <= retry_attempts
        /\ call.result \in {"pending", "failure"}
        /\ call.result = "pending" =>
             /\ pc \in {"Attempt", "Sleep"}
             /\ requests < retry_attempts
             /\ sleeps = IF pc = "Sleep" THEN requests - 1 ELSE requests
        /\ call.result = "failure" =>
             /\ requests = retry_attempts
             /\ sleeps = retry_attempts - 1
             /\ slept = (retry_attempts - 1) * retry_delay
             /\ pc = "Returned" => data = None

\* A call has returned None after retry_attempts failed attempts.
C4_Witness ==
    /\ pc = "Returned"
    /\ call.result = "failure"
    /\ transportFailures = retry_attempts
    /\ sleeps = retry_attempts - 1
    /\ slept = (retry_attempts - 1) * retry_delay

\* C5: in a run, save_deals opens the file of a (date, page) for writing at
\* most once.
C5_AtMostOneWrite == \A k \in Keys : writes[k] <= 1

\* Two pages of one day and a page of the next day have each been written.
C5_Witness ==
    /\ writes[<<start_date, 1>>] = 1
    /\ writes[<<start_date, 2>>] = 1
    /\ writes[<<start_date + 1, 1>>] = 1

C7_FailureIsAValue ==
    [][ /\ (pc = "Attempt" /\ pc' = "Crashed" /\ variant \in {"A", "B"})
           => error' = "ValueError"
        /\ (pc = "Returned" /\ call.result = "failure")
           => (files' = files /\ writes' = writes /\ EndsDay)
        /\ DayStartsAtPageOne ]_vars

\* The same object Page with the has_more flag flipped.
FlipHasMore(d) == [d EXCEPT !.has_more = ~@]

\* C8: in every variant, two object Pages with the same records and different
\* has_more flags lead to the same decision to fetch the next page or stop.
C8_HasMoreNotDecisive ==
    (ReturnedPage /\ data.kind = "obj" /\ FlipHasMore(data) \in Pages) =>
        LoopBody(variant, data).cont = LoopBody(variant, FlipHasMore(data)).cont

\* C9: in variants A and B, a bare list of N records and the object
\* {"deals": [the same N records]} get the same write-or-skip decision and
\* the same continue-or-stop decision, and neither raises.
C9_BothShapesAlike ==
    (variant \in {"A", "B"} /\ ReturnedPage /\ data.kind = "list") =>
        LET asList == LoopBody(variant, data)
            asObj == LoopBody(variant, Obj(data.n, FALSE))
        IN  /\ ~asList.raises
            /\ ~asObj.raises
            /\ asList.write = asObj.write
            /\ asList.cont = asObj.cont

\* C10: every run reaches Done, current_date past end_date.
C10_RunTerminates == <>(pc = "Done" /\ current_date > end_date)

\* C11: in variants A and B no HTTP attempt blocks for ever: requests.get
\* always comes back, with an answer or with an exception.
C11_NoAttemptBlocks == variant \in {"A", "B"} => pc # "Blocked"

\* C12: when the write of save_deals fails, the exception leaves main from
\* save_deals after that one attempt at the file, and the run takes no step
\* after it: no second write, no fetch, no page or date after it.
C12_WriteErrorIsFatal ==
    [][ /\ (pc = "Returned" /\ error' = "OSError") =>
              /\ pc' = "Crashed"
              /\ crashSite' = "save_deals"
              /\ writes'[CallKey] = writes[CallKey] + 1
              /\ lastFetch' = lastFetch
        /\ error = "OSError" => FALSE ]_vars

\* A write has failed half way on the second page of a day and the run is over.
C12_Witness ==
    /\ pc = "Crashed"
    /\ error = "OSError"
    /\ page = 2
    /\ files[<<current_date, page>>] = PartialFile
    /\ writes[<<current_date, page>>] = 1

\* C13: when save_deals is about to write, writing the same Page at the same
\* path twice leaves the directory as writing it once does: that path holds
\* the Page as dumped, whatever was there before, and no other path changes.
C13_ExportIdempotent ==
    (ReturnedPage /\ LoopBody(variant, data).write) =>
        LET once == SaveDealsWrite(files, data, CallKey)
            twice == SaveDealsWrite(once, data, CallKey)
        IN  /\ twice = once
            /\ once[CallKey].value = data
            /\ once[CallKey].indent = 4
            /\ \A k \in Keys \ {CallKey} : once[k] = files[k]

\* save_deals is about to write over the file an earlier run left.
C13_Witness ==
    /\ ReturnedPage
    /\ LoopBody(variant, data).write
    /\ files[CallKey] = OldFile
    /\ JsonDump(data) # OldFile

\* C14: a 2xx answer whose body is not JSON never leaves fetch_deals as an
\* exception; it is a failed attempt, so a call that returned None has made
\* retry_attempts requests with a sleep between each two.
C14_MalformedIsFailedAttempt ==
    /\ ~(pc = "Crashed" /\ error = "ValueError")
    /\ call.result = "failure" =>
         (requests = retry_attempts /\ sleeps = retry_attempts - 1)

\* C15: a run that ended on an exception has a non-zero exit status; only a
\* run that reached Done has exit status 0.
C15_NonZeroExitOnError ==
    /\ pc = "Crashed" => (exitCode # NotExited /\ exitCode # 0)
    /\ exitCode = 0 => pc = "Done"

\* C16: every day is visited once, in order. fetch_deals(d, 1) has been
\* called exactly once for every day before current_date, and for
\* current_date itself as soon as its pagination has started; it has not been
\* called for any later day; every call is for current_date, a day of the
\* interval; and main returns with current_date one day past end_date, so a
\* run that ends without a fatal error has fetched page 1 of every day once.
C16_EveryDayOnceInOrder ==
    /\ \A d \in Days :
         dayFetches[d] = IF d < current_date \/ (d = current_date /\ pc # "NextDay")
                         THEN 1 ELSE 0
    /\ call # NoCall => (call.date = current_date /\ current_date \in Days)
    /\ lastFetch # <<0, 0>> => lastFetch[1] \in Days
    /\ pc = "Done" => current_date = end_date + 1

\* The run has ended normally: the first day ended by a short page that was
\* written, the last day by a Failure or an empty page.
C16_Witness ==
    /\ pc = "Done"
    /\ \A d \in Days : dayFetches[d] = 1
    /\ writes[<<start_date, 1>>] = 1 /\ writes[<<start_date, 2>>] = 0
    /\ writes[<<end_date, 1>>] = 0

\* C17: Failure and an empty page are indistinguishable to the driver. In the
\* two count-based programs, when fetch_deals has returned a Page with no
\* records, the loop body does what it does for a Failure (None) in the same
\* state: no write, no exception, pagination of the day ends.
C17_FailureLikeEmptyPage ==
    ( /\ variant \in {"A", "B"}
      /\ ReturnedPage
      /\ IsRecordPage(data)
      /\ NRecords(data) = 0 ) =>
        LoopBody(variant, data) = LoopBody(variant, None)

\* C18: return on first success. In exporta_oportunidades_rdstation.py and
\* the has_more program (the same fetch_deals), a call that has returned a
\* body did so on attempt k = attempt + 1, after exactly k requests and k - 1
\* sleeps, and stays so until main takes the body; no call makes more than
\* retry_attempts requests or sleeps retry_attempts times.
C18_ReturnOnFirstSuccess ==
    variant \in {"A", "C"} =>
        /\ requests <= retry_attempts
        /\ sleeps < retry_attempts
        /\ call.result = "page" =>
             /\ pc = "Returned"
             /\ requests = attempt + 1
             /\ sleeps = attempt
             /\ transportFailures <= attempt

\* The first two attempts failed, the last one allowed succeeded.
C18_Witness ==
    /\ variant = "A"
    /\ ReturnedPage
    /\ IsRecordPage(data)
    /\ requests = retry_attempts
    /\ sleeps = retry_attempts - 1
    /\ transportFailures = retry_attempts - 1

\* C19: the files of a day form a gap-free prefix. In the two count-based
\* programs, whenever the file of (d, p), p > 1, has been written in this run,
\* the file of every earlier page of d has been written in this run too and
\* holds a Page of at least per_page records.
C19_GapFreePrefix ==
    variant \in {"A", "B"} =>
        \A k \in Keys :
            (k[2] > 1 /\ writes[k] > 0) =>
                \A q \in 1 .. (k[2] - 1) :
                    /\ writes[<<k[1], q>>] > 0
                    /\ IsRecordPage(files[<<k[1], q>>].value)
                    /\ NRecords(files[<<k[1], q>>].value) >= per_page

\* Page 2 of the last day has been written after a full page 1.
C19_Witness ==
    /\ variant = "B"
    /\ writes[<<end_date, 2>>] = 1
    /\ files[<<end_date, 2>>].value = Obj(1, FALSE)
    /\ files[<<end_date, 1>>].value = Obj(per_page, FALSE)

\* C20: fetch calls are strictly ordered. Every step that enters fetch_deals
\* passes (current_date, page), a pair lexicographically greater than the
\* pair of the call before; on the same date it is the next page, on a new
\* date it is page 1; and a retry never starts another call.
C20_FetchCallsOrdered ==
    [][ /\ (pc \in {"NextDay", "Returned"} /\ pc' = "Attempt") =>
              /\ lastFetch' = <<current_date', page'>>
              /\ call'.date = current_date' /\ call'.page = page'
              /\ \/ lastFetch'[1] > lastFetch[1] /\ lastFetch'[2] = 1
                 \/ lastFetch'[1] = lastFetch[1] /\ lastFetch'[2] = lastFetch[2] + 1
        /\ pc \in {"Attempt", "Sleep"} => (lastFetch' = lastFetch /\ page' = page)
        /\ pc' # "Attempt" => lastFetch' = lastFetch ]_vars

\* Two pages were fetched for the first day, and the second page of the last
\* day is being fetched after a retry.
C20_Witness ==
    /\ lastFetch = <<end_date, 2>>
    /\ writes[<<start_date, 2>>] = 1
    /\ pc = "Attempt" /\ attempt = 1

====
